---------------------------- MODULE Spec2Model ----------------------------
(***************************************************************************)
(* jian-cha: a status dashboard over a configured list of git checkouts.   *)
(*                                                                         *)
(* The model follows src/jian-cha.rs (the grouped report) and              *)
(* src/src/main.rs (the flat report, same probe and classification).       *)
(*                                                                         *)
(* A Rust String is a sequence of characters, each a TLA+ string: itself   *)
(* when ASCII, its code point otherwise ("U+00E9").  s.len() and the slice *)
(* &s[..k] count UTF-8 bytes, so a character carries its encoded width.    *)
(* Option<T> is a sequence of length 0 (None) or 1 (Some).  A HashMap is a *)
(* function whose DOMAIN is its key set; its iteration order is chosen     *)
(* nondeterministically.  A panic ends the run in pc = "panicked".         *)
(***************************************************************************)
EXTENDS Naturals, Integers, Sequences, FiniteSets, TLC

VARIABLES
    pc,             \* position in main(): probe, group, cluster, sort, render, done, panicked
    config,         \* config.directories
    env,            \* per configured directory: what the filesystem and git answer
    idx,            \* index of the next element of a for loop over a Vec
    results,        \* Vec<RepoResult>
    grouped,        \* HashMap<String, Vec<RepoResult>> keyed by parent directory
    parent_paths,   \* Vec<String>: grouped.keys() in iteration order
    final_grouped,  \* HashMap<String, Vec<RepoResult>> after clustering
    parents,        \* sorted keys of final_grouped
    report,         \* the tables printed so far, in order
    cin,            \* classification alone: the RepoResult given
    cout,           \* classification alone: <<symbol, colour>> once computed
    ts, tn,         \* truncate_string alone: its arguments
    tout            \* truncate_string alone: its result once computed

vars == <<pc, config, env, idx, results, grouped, parent_paths,
          final_grouped, parents, report, cin, cout, ts, tn, tout>>

pipeVars == <<config, env, idx, results, grouped, parent_paths,
              final_grouped, parents, report>>

-----------------------------------------------------------------------------
(* Bounds of the model *)

\* longest configured list of directories
MaxDirs == 3
\* longest string handed to truncate_string on its own
MaxStrLen == 4
\* largest max_len handed to truncate_string on its own
MaxWidth == 6

-----------------------------------------------------------------------------
(* Option<T> *)

None == <<>>
Some(x) == <<x>>
IsSome(o) == o # <<>>
Unwrap(o) == o[1]
UnwrapOr(o, d) == IF IsSome(o) THEN o[1] ELSE d

-----------------------------------------------------------------------------
(* Strings *)

Lower == <<"a", "b", "c", "d", "e", "f", "g", "h", "i", "j", "k", "l", "m",
           "n", "o", "p", "q", "r", "s", "t", "u", "v", "w", "x", "y", "z">>
Upper == <<"A", "B", "C", "D", "E", "F", "G", "H", "I", "J", "K", "L", "M",
           "N", "O", "P", "Q", "R", "S", "T", "U", "V", "W", "X", "Y", "Z">>

IndexIn(c, tab) == IF \E i \in 1..Len(tab) : tab[i] = c
                   THEN CHOOSE i \in 1..Len(tab) : tab[i] = c
                   ELSE 0

\* the byte a one-byte character is encoded as
Code(c) == IF IndexIn(c, Lower) > 0 THEN 96 + IndexIn(c, Lower)
           ELSE IF IndexIn(c, Upper) > 0 THEN 64 + IndexIn(c, Upper)
           ELSE CASE c = "\n" -> 10
                  [] c = " " -> 32
                  [] c = "-" -> 45
                  [] c = "." -> 46
                  [] c = "/" -> 47
                  [] OTHER -> 127

\* number of bytes of the UTF-8 encoding of a character
Width(c) == CASE c = "U+00E9" -> 2
              [] c = "U+4E2D" -> 3
              [] OTHER -> 1

RECURSIVE ByteLen(_)
\* str::len
ByteLen(s) == IF s = <<>> THEN 0 ELSE Width(Head(s)) + ByteLen(Tail(s))

\* str::is_char_boundary
IsCharBoundary(s, k) == \E i \in 0..Len(s) : ByteLen(SubSeq(s, 1, i)) = k

\* &s[..k], defined only on a character boundary
SliceTo(s, k) == SubSeq(s, 1, CHOOSE i \in 0..Len(s) : ByteLen(SubSeq(s, 1, i)) = k)

\* usize::saturating_sub
SaturatingSub(a, b) == IF a >= b THEN a - b ELSE 0

\* str::starts_with(&str): a prefix test on the characters
StartsWith(s, p) == Len(p) <= Len(s) /\ SubSeq(s, 1, Len(p)) = p

RECURSIVE LexLess(_, _)
\* Ord for String: byte-wise lexicographic
LexLess(s, t) ==
    IF t = <<>> THEN FALSE
    ELSE IF s = <<>> THEN TRUE
    ELSE IF Code(Head(s)) # Code(Head(t)) THEN Code(Head(s)) < Code(Head(t))
    ELSE LexLess(Tail(s), Tail(t))

IsSpace(c) == c \in {" ", "\n", "\t"}

RECURSIVE TrimStart(_)
TrimStart(s) == IF s # <<>> /\ IsSpace(Head(s)) THEN TrimStart(Tail(s)) ELSE s

RECURSIVE TrimEnd(_)
TrimEnd(s) == IF s # <<>> /\ IsSpace(s[Len(s)])
              THEN TrimEnd(SubSeq(s, 1, Len(s) - 1)) ELSE s

\* str::trim
Trim(s) == TrimEnd(TrimStart(s))

\* str::to_uppercase on the characters the model uses
ToUppercase(s) == [i \in 1..Len(s) |->
                     IF IndexIn(s[i], Lower) > 0 THEN Upper[IndexIn(s[i], Lower)]
                     ELSE s[i]]

Digits == <<"0", "1", "2", "3", "4", "5", "6", "7", "8", "9">>
DigitVal(c) == IndexIn(c, Digits) - 1

MaxI32 == 2147483647

RECURSIVE ParseDigits(_, _)
\* accumulate decimal digits; None on a non-digit or on overflow of i32
ParseDigits(s, acc) ==
    IF s = <<>> THEN Some(acc)
    ELSE IF IndexIn(Head(s), Digits) = 0 THEN None
    ELSE IF acc > (MaxI32 - DigitVal(Head(s))) \div 10 THEN None
    ELSE ParseDigits(Tail(s), 10 * acc + DigitVal(Head(s)))

\* str::parse::<i32>: an optional sign, then at least one digit
ParseI32(s) ==
    IF s = <<>> THEN None
    ELSE IF Head(s) \in {"+", "-"}
         THEN IF Tail(s) = <<>> THEN None
              ELSE LET m == ParseDigits(Tail(s), 0)
                   IN  IF ~IsSome(m) THEN None
                       ELSE IF Head(s) = "-" THEN Some(0 - Unwrap(m)) ELSE m
    ELSE ParseDigits(s, 0)

-----------------------------------------------------------------------------
(* Paths (normalised: no trailing separator, no "." component) *)

RECURSIVE LastSlash(_)
\* index of the last separator of s, 0 when there is none
LastSlash(s) == IF s = <<>> THEN 0
                ELSE IF s[Len(s)] = "/" THEN Len(s)
                ELSE LastSlash(SubSeq(s, 1, Len(s) - 1))

\* Path::parent: None for the root and for the empty path
PathParent(s) ==
    IF s = <<>> \/ s = <<"/">> THEN None
    ELSE IF LastSlash(s) = 0 THEN Some(<<>>)
    ELSE IF LastSlash(s) = 1 THEN Some(<<"/">>)
    ELSE Some(SubSeq(s, 1, LastSlash(s) - 1))

\* Path::file_name: None for the root and for the empty path
FileName(s) ==
    IF s = <<>> \/ s = <<"/">> THEN None
    ELSE Some(SubSeq(s, LastSlash(s) + 1, Len(s)))

\* Path::strip_prefix: the prefix must end at a component boundary
StripPrefix(s, base) ==
    IF s = base THEN Some(<<>>)
    ELSE IF base = <<>> THEN (IF s[1] = "/" THEN None ELSE Some(s))
    ELSE IF base = <<"/">> THEN (IF s # <<>> /\ s[1] = "/" THEN Some(Tail(s)) ELSE None)
    ELSE IF StartsWith(s, base \o <<"/">>)
         THEN Some(SubSeq(s, Len(base) + 2, Len(s)))
    ELSE None

-----------------------------------------------------------------------------
(* Results of operations that may panic *)

Panicked == [panic |-> TRUE]
Ok(x) == [panic |-> FALSE, val |-> x]

-----------------------------------------------------------------------------
(* String literals of the program *)

ErrInvalidDirectory ==
    <<"N", "o", "t", " ", "a", " ", "v", "a", "l", "i", "d", " ",
      "d", "i", "r", "e", "c", "t", "o", "r", "y">>
ErrNotARepository ==
    <<"N", "o", "t", " ", "a", " ", "G", "i", "t", " ",
      "r", "e", "p", "o", "s", "i", "t", "o", "r", "y">>
ErrProbeFailed ==
    <<"F", "a", "i", "l", "e", "d", " ", "t", "o", " ", "r", "e", "t", "r", "i",
      "e", "v", "e", " ", "G", "i", "t", " ", "i", "n", "f", "o">>
Unknown == <<"U", "n", "k", "n", "o", "w", "n">>
UNKNOWN == <<"U", "N", "K", "N", "O", "W", "N">>
Ellipsis == <<".", ".", ".">>
Dash == <<"-">>

\* status symbols (written as code points) and comfy_table colours
SymError == "?"
SymOk == "U+2713"
SymAhead == "U+2191"
SymNoUpstream == "U+26A0"
SymDirty == "U+2717"

\* fixed display widths of the Repository, Branch, Last Commit and Error cells
RepoWidth == 13
BranchWidth == 16
CommitWidth == 33
ErrorWidth == 6

-----------------------------------------------------------------------------
(* The git probe *)

\* Command::output().ok().filter(success).and_then(String::from_utf8(..).ok())
\* on what the command answered: cmd = [ok, utf8, out]
Query(cmd) == IF cmd.ok /\ cmd.utf8 THEN Some(cmd.out) ELSE None

\* is_git_repo: to_str().unwrap() panics on a path that is not UTF-8
is_git_repo(path, e) == IF ~path.utf8 THEN Panicked ELSE Ok(e.is_repo)

\* HasUnpushed reading a failed upstream query as nothing to push
HasUnpushedDefaultFalse(e) ==
    LET s == Query(e.upstream)
        n == IF IsSome(s) THEN ParseI32(Trim(Unwrap(s))) ELSE None
    IN  IF IsSome(n) THEN Some(Unwrap(n) > 0) ELSE Some(FALSE)

\* the has_unpushed chain of get_git_info
HasUnpushed(e) ==
    LET s == Query(e.upstream)
        n == IF IsSome(s) THEN ParseI32(Trim(Unwrap(s))) ELSE None
    IN  IF IsSome(n) THEN Some(Unwrap(n) > 0) ELSE None

\* get_git_info: Option<GitInfo>; each ? returns None at the first failure
get_git_info(path, e) ==
    IF ~path.utf8 THEN None
    ELSE IF ~IsSome(Query(e.branch)) THEN None
    ELSE IF ~IsSome(Query(e.log)) THEN None
    ELSE IF ~IsSome(Query(e.status)) THEN None
    ELSE Some([branch       |-> Trim(Unwrap(Query(e.branch))),
               last_commit  |-> Trim(Unwrap(Query(e.log))),
               clean        |-> Trim(Unwrap(Query(e.status))) = <<>>,
               has_unpushed |-> HasUnpushed(e)])

ErrorResult(dir, msg) ==
    [directory |-> dir, branch |-> None, last_commit |-> None, clean |-> None,
     has_unpushed |-> None, error |-> Some(msg)]

\* ProbeDir keeping the branch it read when a later query fails
ProbeDirPartial(directory, e) ==
    IF ~IsSome(e.canon) THEN Ok(ErrorResult(directory, ErrInvalidDirectory))
    ELSE LET resolved_path == Unwrap(e.canon)
             repo == is_git_repo(resolved_path, e)
             info == get_git_info(resolved_path, e)
         IN  IF repo.panic THEN Panicked
             ELSE IF ~repo.val THEN Ok(ErrorResult(resolved_path.str, ErrNotARepository))
             ELSE IF IsSome(info)
                  THEN Ok([directory    |-> resolved_path.str,
                           branch       |-> Some(Unwrap(info).branch),
                           last_commit  |-> Some(Unwrap(info).last_commit),
                           clean        |-> Some(Unwrap(info).clean),
                           has_unpushed |-> Unwrap(info).has_unpushed,
                           error        |-> None])
             ELSE Ok([ErrorResult(resolved_path.str, ErrProbeFailed)
                        EXCEPT !.branch = Query(e.branch)])

\* one iteration of the probe loop of main: the RepoResult pushed, or a panic
ProbeDir(directory, e) ==
    IF ~IsSome(e.canon) THEN Ok(ErrorResult(directory, ErrInvalidDirectory))
    ELSE LET resolved_path == Unwrap(e.canon)
             repo == is_git_repo(resolved_path, e)
             info == get_git_info(resolved_path, e)
         IN  IF repo.panic THEN Panicked
             ELSE IF ~repo.val THEN Ok(ErrorResult(resolved_path.str, ErrNotARepository))
             ELSE IF IsSome(info)
                  THEN Ok([directory    |-> resolved_path.str,
                           branch       |-> Some(Unwrap(info).branch),
                           last_commit  |-> Some(Unwrap(info).last_commit),
                           clean        |-> Some(Unwrap(info).clean),
                           has_unpushed |-> Unwrap(info).has_unpushed,
                           error        |-> None])
             ELSE Ok(ErrorResult(resolved_path.str, ErrProbeFailed))

-----------------------------------------------------------------------------
(* Classification and display *)

\* Classify with the cleanliness tested before the error
ClassifyErrorLast(result) ==
    LET clean == UnwrapOr(result.clean, FALSE)
        has_unpushed == result.has_unpushed
    IN  IF clean /\ has_unpushed = Some(FALSE) THEN <<SymOk, "Green">>
        ELSE IF clean /\ has_unpushed = Some(TRUE) THEN <<SymAhead, "Yellow">>
        ELSE IF clean /\ has_unpushed = None THEN <<SymNoUpstream, "Yellow">>
        ELSE IF IsSome(result.error) THEN <<SymError, "Yellow">>
        ELSE <<SymDirty, "Red">>

\* the (status_symbol, status_color) expression of main
Classify(result) ==
    IF IsSome(result.error) THEN <<SymError, "Yellow">>
    ELSE LET clean == UnwrapOr(result.clean, FALSE)
             has_unpushed == result.has_unpushed
         IN  IF clean /\ has_unpushed = Some(FALSE) THEN <<SymOk, "Green">>
             ELSE IF clean /\ has_unpushed = Some(TRUE) THEN <<SymAhead, "Yellow">>
             ELSE IF clean /\ has_unpushed = None THEN <<SymNoUpstream, "Yellow">>
             ELSE <<SymDirty, "Red">>

\* truncate_string: the slice panics off a character boundary
truncate_string(s, max_len) ==
    IF ByteLen(s) <= max_len THEN Ok(s)
    ELSE IF IsCharBoundary(s, SaturatingSub(max_len, 3))
         THEN Ok(SliceTo(s, SaturatingSub(max_len, 3)) \o Ellipsis)
    ELSE Panicked

\* repo_name: the path relative to the group key, else the base name
RepoName(result, parent) ==
    IF IsSome(StripPrefix(result.directory, parent))
    THEN Unwrap(StripPrefix(result.directory, parent))
    ELSE UnwrapOr(FileName(result.directory), result.directory)

\* one table row of the grouped report, or a panic of one of its truncations
RenderRow(result, parent) ==
    LET repo   == truncate_string(RepoName(result, parent), RepoWidth)
        branch == truncate_string(UnwrapOr(result.branch, <<>>), BranchWidth)
        commit == truncate_string(UnwrapOr(result.last_commit, <<>>), CommitWidth)
        error  == truncate_string(UnwrapOr(result.error, Dash), ErrorWidth)
    IN  IF repo.panic \/ branch.panic \/ commit.panic \/ error.panic THEN Panicked
        ELSE Ok([directory |-> result.directory,
                 repo      |-> repo.val,
                 branch    |-> branch.val,
                 status    |-> Classify(result),
                 commit    |-> commit.val,
                 error     |-> error.val])

RECURSIVE RenderRows(_, _)
\* the rows of one table, in the order of the group's Vec
RenderRows(repos, parent) ==
    IF repos = <<>> THEN Ok(<<>>)
    ELSE LET row  == RenderRow(Head(repos), parent)
             rest == RenderRows(Tail(repos), parent)
         IN  IF row.panic \/ rest.panic THEN Panicked
             ELSE Ok(<<row.val>> \o rest.val)

\* the section header: last component of the key, upper-cased
ParentName(parent) ==
    IF IsSome(FileName(parent)) THEN ToUppercase(Unwrap(FileName(parent)))
    ELSE UNKNOWN

-----------------------------------------------------------------------------
(* Grouping *)

\* ParentKey grouping every result under its own directory
ParentKeySelf(result) == result.directory

\* the key a result is grouped under: its parent directory
ParentKey(result) == UnwrapOr(PathParent(result.directory), Unknown)

\* map.entry(key).or_insert_with(Vec::new).extend(items)
EntryExtend(map, key, items) ==
    [k \in DOMAIN map \cup {key} |->
        IF k = key
        THEN (IF key \in DOMAIN map THEN map[key] ELSE <<>>) \o items
        ELSE map[k]]

RECURSIVE GroupByParent(_, _)
\* the first grouping loop, folded over results in order
GroupByParent(rs, map) ==
    IF rs = <<>> THEN map
    ELSE GroupByParent(Tail(rs), EntryExtend(map, ParentKey(Head(rs)), <<Head(rs)>>))

\* is this parent nested under the other parent of our list
IsNestedUnder(parent, other_parent) ==
    StartsWith(parent, other_parent) /\ parent # other_parent

\* CommonAncestor without the merge onto another key
CommonAncestorNoMerge(parent, paths) == parent

RECURSIVE CommonAncestor(_, _)
\* the inner loop of the clustering pass: the first match in paths, else parent
CommonAncestor(parent, paths) ==
    IF paths = <<>> THEN parent
    ELSE IF IsNestedUnder(parent, Head(paths)) THEN Head(paths)
    ELSE CommonAncestor(parent, Tail(paths))

RECURSIVE InsertSorted(_, _)
InsertSorted(k, sorted) ==
    IF sorted = <<>> THEN <<k>>
    ELSE IF LexLess(k, Head(sorted)) THEN <<k>> \o sorted
    ELSE <<Head(sorted)>> \o InsertSorted(k, Tail(sorted))

\* SortVec leaving the keys in the order the map yielded them
SortVecUnsorted(v) == v

RECURSIVE SortVec(_)
\* Vec<String>::sort
SortVec(v) == IF v = <<>> THEN <<>> ELSE InsertSorted(Head(v), SortVec(Tail(v)))

\* the orders a HashMap may yield its keys in
Orders(S) == {o \in [1..Cardinality(S) -> S] : \A k \in S : \E i \in DOMAIN o : o[i] = k}

-----------------------------------------------------------------------------
(* The environment: configured paths and what the filesystem and git answer *)

WS_A       == <<"/", "w", "s", "/", "a">>
WS_A_SUB   == <<"/", "w", "s", "/", "a", "/", "s", "u", "b">>
WS_A_SUB_M == <<"/", "w", "s", "/", "a", "/", "s", "u", "b", "/", "m">>
WS_B       == <<"/", "w", "s", "/", "b">>
WS_AB_R    == <<"/", "w", "s", "/", "a", "b", "/", "r">>
WS_U       == <<"/", "w", "s", "/", "u">>
WS_PLAIN   == <<"/", "w", "s", "/", "p", "l", "a", "i", "n">>
NOPE       == <<"/", "n", "o", "p", "e">>
LN         == <<"/", "l", "n">>
BAD        == <<"/", "b", "a", "d">>
OPT_X      == <<"/", "o", "p", "t", "/", "x">>

\* the paths a configuration may list
Dirs == {WS_A, WS_A_SUB, WS_A_SUB_M, WS_B, WS_AB_R, WS_U, NOPE, LN, BAD, OPT_X}

Main == <<"m", "a", "i", "n">>
LongBranch == <<"f", "e", "a", "t", "u", "r", "e", "/", "l", "o", "n", "g", "-",
                "b", "r", "a", "n", "c", "h", "-", "n", "a", "m", "e">>
Subject == <<"i", "n", "i", "t">>
\* a subject of 35 bytes whose 30th character is two bytes wide
AccentSubject == [i \in 1..34 |-> IF i = 30 THEN "U+00E9" ELSE "a"]
Newline == <<"\n">>

CmdOk(out) == [ok |-> TRUE, utf8 |-> TRUE, out |-> out]
CmdFail == [ok |-> FALSE, utf8 |-> TRUE, out |-> <<>>]
CmdNotUtf8 == [ok |-> TRUE, utf8 |-> FALSE, out |-> <<>>]

Resolved(str) == Some([utf8 |-> TRUE, str |-> str])
ResolvedNotUtf8(lossy) == Some([utf8 |-> FALSE, str |-> lossy])

Repo(path, branch, subject, status, upstream) ==
    [canon |-> Resolved(path), is_repo |-> TRUE, branch |-> CmdOk(branch \o Newline),
     log |-> CmdOk(subject \o Newline), status |-> CmdOk(status), upstream |-> upstream]

\* a fixed workspace: one directory of every kind
World ==
    [d \in Dirs |->
       CASE d = WS_A       -> Repo(WS_A, Main, Subject, <<>>, CmdOk(<<"0", "\n">>))
         [] d = WS_A_SUB   -> Repo(WS_A_SUB, Main, Subject, <<" ", "M", " ", "f", "\n">>, CmdFail)
         [] d = WS_B       -> Repo(WS_B, LongBranch, Subject, <<>>, CmdOk(<<"2", "\n">>))
         [] d = WS_AB_R    -> Repo(WS_AB_R, Main, Subject, <<>>, CmdFail)
         [] d = OPT_X      -> Repo(OPT_X, Main, Subject, <<" ", "\n">>, CmdOk(<<"0", "\n">>))
         [] d = WS_U       -> Repo(WS_U, Main, AccentSubject, <<>>, CmdOk(<<"0", "\n">>))
         [] d = WS_A_SUB_M -> [Repo(WS_A_SUB_M, Main, Subject, <<>>, CmdFail)
                                 EXCEPT !.branch = CmdFail, !.log = CmdFail]
         [] d = NOPE       -> [Repo(NOPE, Main, Subject, <<>>, CmdFail)
                                 EXCEPT !.canon = None]
         [] d = LN         -> [Repo(WS_PLAIN, Main, Subject, <<>>, CmdFail)
                                 EXCEPT !.is_repo = FALSE]
         [] d = BAD        -> [Repo(BAD, Main, Subject, <<>>, CmdFail)
                                 EXCEPT !.canon = ResolvedNotUtf8(BAD)]]

\* every answer one directory can get, stage by stage
EnvSpace ==
    [canon    : {None, Resolved(WS_A), Resolved(WS_PLAIN), ResolvedNotUtf8(BAD)},
     is_repo  : BOOLEAN,
     branch   : {CmdFail, CmdNotUtf8, CmdOk(Main \o Newline)},
     log      : {CmdFail, CmdNotUtf8, CmdOk(Subject \o Newline), CmdOk(AccentSubject)},
     status   : {CmdFail, CmdNotUtf8, CmdOk(<<>>), CmdOk(<<" ", "\n">>),
                 CmdOk(<<" ", "M", " ", "f", "\n">>)},
     upstream : {CmdFail, CmdNotUtf8, CmdOk(<<>>), CmdOk(<<"x">>), CmdOk(<<"0", "\n">>),
                 CmdOk(<<"2", "\n">>)}]

-----------------------------------------------------------------------------
(* Initial states *)

EmptyMap == <<>>

PipeInit ==
    /\ idx = 1
    /\ results = <<>>
    /\ grouped = EmptyMap
    /\ parent_paths = <<>>
    /\ final_grouped = EmptyMap
    /\ parents = <<>>
    /\ report = <<>>

Idle ==
    /\ cin = None /\ cout = None
    /\ ts = <<>> /\ tn = 0 /\ tout = None

\* main() over any configuration of at most MaxDirs paths of the fixed workspace
Init ==
    /\ config \in UNION {[1..n -> Dirs] : n \in 0..MaxDirs}
    /\ env = [d \in {config[i] : i \in 1..Len(config)} |-> World[d]]
    /\ pc = IF config = <<>> THEN "group" ELSE "probe"
    /\ PipeInit
    /\ Idle

\* main() over one configured path, with every combination of answers
InitProbe ==
    /\ config = <<WS_A>>
    /\ env \in [{WS_A} -> EnvSpace]
    /\ pc = "probe"
    /\ PipeInit
    /\ Idle

-----------------------------------------------------------------------------
(* main() *)

\* one iteration of the probe loop
Probe ==
    /\ pc = "probe"
    /\ LET r == ProbeDir(config[idx], env[config[idx]])
       IN  IF r.panic
           THEN pc' = "panicked" /\ UNCHANGED <<results, idx>>
           ELSE /\ results' = Append(results, r.val)
                /\ idx' = idx + 1
                /\ pc' = IF idx = Len(config) THEN "group" ELSE "probe"
    /\ UNCHANGED <<config, env, grouped, parent_paths, final_grouped,
                   parents, report, cin, cout, ts, tn, tout>>

\* group results by parent directory, then collect the keys
Group ==
    /\ pc = "group"
    /\ grouped' = GroupByParent(results, EmptyMap)
    /\ parent_paths' \in Orders(DOMAIN grouped')
    /\ idx' = 1
    /\ pc' = IF parent_paths' = <<>> THEN "sort" ELSE "cluster"
    /\ UNCHANGED <<config, env, results, final_grouped, parents, report,
                   cin, cout, ts, tn, tout>>

\* one iteration of the clustering loop; grouped is walked in the order its
\* keys() were (both walk the same table, unchanged in between)
Cluster ==
    /\ pc = "cluster"
    /\ LET parent == parent_paths[idx]
       IN  final_grouped' = EntryExtend(final_grouped,
                                        CommonAncestor(parent, parent_paths),
                                        grouped[parent])
    /\ idx' = idx + 1
    /\ pc' = IF idx = Len(parent_paths) THEN "sort" ELSE "cluster"
    /\ UNCHANGED <<config, env, results, grouped, parent_paths, parents,
                   report, cin, cout, ts, tn, tout>>

\* sort the keys of final_grouped
Sort ==
    /\ pc = "sort"
    /\ \E keys \in Orders(DOMAIN final_grouped) : parents' = SortVec(keys)
    /\ idx' = 1
    /\ pc' = IF parents' = <<>> THEN "done" ELSE "render"
    /\ UNCHANGED <<config, env, results, grouped, parent_paths,
                   final_grouped, report, cin, cout, ts, tn, tout>>

\* one iteration of the table loop: print the table of parents[idx]
Render ==
    /\ pc = "render"
    /\ LET parent == parents[idx]
           rows   == RenderRows(final_grouped[parent], parent)
       IN  IF rows.panic
           THEN pc' = "panicked" /\ UNCHANGED <<report, idx>>
           ELSE /\ report' = Append(report, [key  |-> parent,
                                             name |-> ParentName(parent),
                                             rows |-> rows.val])
                /\ idx' = idx + 1
                /\ pc' = IF idx = Len(parents) THEN "done" ELSE "render"
    /\ UNCHANGED <<config, env, results, grouped, parent_paths,
                   final_grouped, parents, cin, cout, ts, tn, tout>>

Next == Probe \/ Group \/ Cluster \/ Sort \/ Render

Spec == Init /\ [][Next]_vars

SpecProbe == InitProbe /\ [][Next]_vars

-----------------------------------------------------------------------------
(* The classification and the truncation on their own *)

AnyRepoResult ==
    [directory    : {WS_A},
     branch       : {None, Some(Main)},
     last_commit  : {None, Some(Subject)},
     clean        : {None, Some(TRUE), Some(FALSE)},
     has_unpushed : {None, Some(TRUE), Some(FALSE)},
     error        : {None, Some(ErrInvalidDirectory), Some(ErrNotARepository),
                     Some(ErrProbeFailed)}]

InitClassify ==
    /\ pc = "classify"
    /\ cin \in {Some(r) : r \in AnyRepoResult}
    /\ cout = None
    /\ ts = <<>> /\ tn = 0 /\ tout = None
    /\ config = <<>> /\ env = EmptyMap
    /\ PipeInit

\* the status expression applied to the row given
ClassifyStep ==
    /\ pc = "classify"
    /\ cout' = Some(Classify(Unwrap(cin)))
    /\ pc' = "classified"
    /\ UNCHANGED <<pipeVars, cin, ts, tn, tout>>

NextClassify == ClassifyStep

SpecClassify == InitClassify /\ [][NextClassify]_vars

\* characters of one, two and three bytes
Chars == {"a", "U+00E9", "U+4E2D"}

InitTrunc ==
    /\ pc = "truncate"
    /\ ts \in UNION {[1..n -> Chars] : n \in 0..MaxStrLen}
    /\ tn \in 0..MaxWidth
    /\ tout = None
    /\ cin = None /\ cout = None
    /\ config = <<>> /\ env = EmptyMap
    /\ PipeInit

\* truncate_string applied to the arguments given
TruncateStep ==
    /\ pc = "truncate"
    /\ tout' = Some(truncate_string(ts, tn))
    /\ pc' = "truncated"
    /\ UNCHANGED <<pipeVars, cin, cout, ts, tn>>

NextTrunc == TruncateStep

SpecTrunc == InitTrunc /\ [][NextTrunc]_vars

-----------------------------------------------------------------------------
(* Properties *)

\* severity of a colour: Green is ok, Yellow a warning, Red an error
Severity(colour) == CASE colour = "Green" -> "ok"
                      [] colour = "Yellow" -> "warning"
                      [] colour = "Red" -> "error"

\* C1: the classification of any RepoResult follows the table: an error gives
\* "?" (warning) whatever the other fields; else clean and nothing unpushed
\* gives U+2713 (ok), clean and unpushed U+2191 (warning), clean and no
\* upstream U+26A0 (warning), and not clean U+2717 (error) for every
\* has_unpushed.
C1_ClassificationTable ==
    pc = "classified" =>
      LET r   == Unwrap(cin)
          sym == Unwrap(cout)[1]
          sev == Severity(Unwrap(cout)[2])
      IN  /\ IsSome(r.error) => (sym = "?" /\ sev = "warning")
          /\ (~IsSome(r.error) /\ r.clean = <<TRUE>> /\ r.has_unpushed = <<FALSE>>)
               => (sym = "U+2713" /\ sev = "ok")
          /\ (~IsSome(r.error) /\ r.clean = <<TRUE>> /\ r.has_unpushed = <<TRUE>>)
               => (sym = "U+2191" /\ sev = "warning")
          /\ (~IsSome(r.error) /\ r.clean = <<TRUE>> /\ r.has_unpushed = <<>>)
               => (sym = "U+26A0" /\ sev = "warning")
          /\ (~IsSome(r.error) /\ r.clean = <<FALSE>>)
               => (sym = "U+2717" /\ sev = "error")

\* C1 witness: a row with an error and with clean = Some(true),
\* has_unpushed = Some(false) has been classified "?".
C1_Witness ==
    /\ pc = "classified"
    /\ IsSome(Unwrap(cin).error)
    /\ Unwrap(cin).clean = <<TRUE>>
    /\ Unwrap(cin).has_unpushed = <<FALSE>>
    /\ Unwrap(cout)[1] = "?"

\* a RepoResult holds either an error and nothing else, or no error and a
\* branch, a last commit and a cleanliness
ExactlyOneOfStateOrError(r) ==
    IF r.error # <<>>
    THEN r.branch = <<>> /\ r.last_commit = <<>> /\ r.clean = <<>> /\ r.has_unpushed = <<>>
    ELSE r.branch # <<>> /\ r.last_commit # <<>> /\ r.clean # <<>>

\* C2: every RepoResult pushed by the probe loop, whatever canonicalize, the
\* repository check and the queries answer, has exactly one of state or error;
\* none is partially populated.
C2_NeverPartiallyPopulated ==
    \A i \in 1..Len(results) : ExactlyOneOfStateOrError(results[i])

\* C2 witness: the branch query answered, the log query failed, and the result
\* pushed is an error.
C2_Witness ==
    /\ Len(results) = 1
    /\ env[config[1]].branch.ok /\ env[config[1]].branch.utf8
    /\ ~env[config[1]].log.ok
    /\ results[1].error # <<>>
    /\ results[1].branch = <<>>

\* a command failed: it could not run, exited non-zero, or printed bytes that
\* are not UTF-8
Failed(cmd) == ~cmd.ok \/ ~cmd.utf8

\* what the upstream ahead-count answer means: None when the query failed or
\* printed no integer, else whether the count is positive
ExpectedUnpushed(cmd) ==
    IF Failed(cmd) THEN <<>>
    ELSE CASE cmd.out = <<"0", "\n">> -> <<FALSE>>
           [] cmd.out = <<"2", "\n">> -> <<TRUE>>
           [] OTHER -> <<>>

\* the outcome the first failing stage determines
OutcomeOfFirstFailingStage(directory, e, r) ==
    IF e.canon = <<>>
    THEN r.error = <<ErrInvalidDirectory>> /\ r.directory = directory
    ELSE IF ~e.is_repo
    THEN r.error = <<ErrNotARepository>> /\ r.directory = e.canon[1].str
    ELSE IF Failed(e.branch) \/ Failed(e.log) \/ Failed(e.status)
    THEN r.error = <<ErrProbeFailed>> /\ r.directory = e.canon[1].str
    ELSE /\ r.error = <<>>
         /\ r.directory = e.canon[1].str
         /\ r.branch # <<>> /\ r.last_commit # <<>> /\ r.clean # <<>>
         /\ r.has_unpushed = ExpectedUnpushed(e.upstream)

\* C3: the result of probing one directory is decided by the first failing
\* stage: canonicalize fails gives InvalidDirectory with the configured path;
\* else not a repository gives NotARepository; else a failed branch, log or
\* status query gives ProbeFailed; else a full state, in which a failed
\* upstream query only makes has_unpushed None (Some(count > 0) otherwise).
C3_FirstFailingStageDecides ==
    \A i \in 1..Len(results) :
        OutcomeOfFirstFailingStage(config[i], env[config[i]], results[i])

\* C3 witness: all three required queries answered, the upstream query failed,
\* and a full state with has_unpushed = None was pushed.
C3_Witness ==
    /\ Len(results) = 1
    /\ ~Failed(env[config[1]].branch)
    /\ ~Failed(env[config[1]].log)
    /\ ~Failed(env[config[1]].status)
    /\ Failed(env[config[1]].upstream)
    /\ results[1].error = <<>>
    /\ results[1].has_unpushed = <<>>

RECURSIVE RowCount(_)
\* number of rows over the tables of a report
RowCount(tables) ==
    IF tables = <<>> THEN 0 ELSE Len(Head(tables).rows) + RowCount(Tail(tables))

\* C4: the run never aborts, and when it ends every configured entry has
\* exactly one row: the rows over all tables are as many as the configured
\* directories, and every result is in exactly one group.
C4_NoAbortOneRowPerEntry ==
    /\ pc # "panicked"
    /\ pc = "done" => RowCount(report) = Len(config)
    /\ pc \in {"sort", "render", "done"} =>
         \A i \in 1..Len(results) :
            Cardinality({k \in DOMAIN final_grouped :
                           \E j \in 1..Len(final_grouped[k]) :
                              final_grouped[k][j] = results[i]}) = 1

WS == <<"/", "w", "s">>

\* the clustering loop has visited every key
AfterClustering == pc \in {"sort", "render", "done"}

\* the final group keys holding a row of this directory
GroupsOf(dir) ==
    {k \in DOMAIN final_grouped :
        \E j \in 1..Len(final_grouped[k]) : final_grouped[k][j].directory = dir}

NestedConfig == config = <<WS_A, WS_A_SUB>> \/ config = <<WS_A_SUB, WS_A>>

\* C5 (amended): with repositories /ws/a and /ws/a/sub configured, in either
\* order and whatever order the key map is iterated in, both rows are in the
\* same final group, and that group's key is /ws, the parent of the outer
\* repository; it is the only table printed.
C5_NestedSameGroupKeyedByParent ==
    /\ (NestedConfig /\ AfterClustering) =>
          /\ DOMAIN final_grouped = {WS}
          /\ GroupsOf(WS_A) = {WS} /\ GroupsOf(WS_A_SUB) = {WS}
          /\ Len(final_grouped[WS]) = 2
    /\ (NestedConfig /\ pc = "done") =>
          /\ Len(report) = 1
          /\ report[1].key = WS
          /\ {report[1].rows[j].directory : j \in 1..Len(report[1].rows)} = {WS_A, WS_A_SUB}

\* C5 witness: /ws/a/sub was configured before /ws/a, the key /ws/a was
\* iterated before /ws, and the one table holds both rows.
C5_Witness ==
    /\ config = <<WS_A_SUB, WS_A>>
    /\ parent_paths = <<WS_A, WS>>
    /\ pc = "done"
    /\ Len(report) = 1
    /\ Len(report[1].rows) = 2

\* C5 as stated: with repositories /ws/a and /ws/a/sub configured, both rows
\* are in the same final group and that group's key is /ws/a.
C5_NestedSameGroupKeyedByOuterRepo ==
    (NestedConfig /\ AfterClustering) =>
       GroupsOf(WS_A) = {WS_A} /\ GroupsOf(WS_A_SUB) = {WS_A}

SiblingConfig == config = <<WS_A, WS_B>> \/ config = <<WS_B, WS_A>>

\* C6 (amended): with the siblings /ws/a and /ws/b configured and /ws not
\* configured, the two rows are in one final group, keyed by their parent /ws.
C6_SiblingsShareParentGroup ==
    /\ (SiblingConfig /\ AfterClustering) =>
          /\ DOMAIN final_grouped = {WS}
          /\ GroupsOf(WS_A) = {WS} /\ GroupsOf(WS_B) = {WS}
          /\ Len(final_grouped[WS]) = 2
    /\ (SiblingConfig /\ pc = "done") =>
          /\ Len(report) = 1
          /\ report[1].key = WS
          /\ {report[1].rows[j].directory : j \in 1..Len(report[1].rows)} = {WS_A, WS_B}

\* C6 witness: /ws/b and /ws/a were configured, /ws was not, and the run ended
\* with one table keyed /ws.
C6_Witness ==
    /\ config = <<WS_B, WS_A>>
    /\ pc = "done"
    /\ Len(report) = 1
    /\ report[1].key = WS
    /\ Len(report[1].rows) = 2

\* C6 as stated: the siblings /ws/a and /ws/b are in two distinct final groups
\* and /ws is not a group key.
C6_SiblingsInDistinctGroups ==
    (SiblingConfig /\ AfterClustering) =>
       /\ GroupsOf(WS_A) # GroupsOf(WS_B)
       /\ WS \notin DOMAIN final_grouped

\* C8: the tables are printed in strictly ascending lexicographic order of
\* their final group key, so no key twice and in an order that depends on the
\* key strings alone; when the run ends every final key has been printed.
C8_AscendingEmission ==
    /\ \A i, j \in 1..Len(report) :
          i < j => LexLess(report[i].key, report[j].key)
    /\ pc = "done" => {report[i].key : i \in 1..Len(report)} = DOMAIN final_grouped

\* C8 witness: three tables were printed, and the key map yielded its keys in
\* another order than the printed one.
C8_Witness ==
    /\ pc = "done"
    /\ Len(report) = 3
    /\ parent_paths # parents
    /\ parent_paths[1] # report[1].key

\* k lies inside the directory anc
IsPathDescendant(k, anc) ==
    /\ k # anc
    /\ IF anc = <<"/">> THEN StartsWith(k, anc) ELSE StartsWith(k, anc \o <<"/">>)

\* C9: the final group key of an initial key K is K itself or another initial
\* key that is an enclosing directory of K, never a key that is only a string
\* prefix of K.
C9_FinalKeyIsSelfOrEnclosingDirectory ==
    \A f \in DOMAIN final_grouped :
       \A j \in 1..Len(final_grouped[f]) :
          LET k == ParentKey(final_grouped[f][j])
          IN  f = k \/ (f \in DOMAIN grouped /\ IsPathDescendant(k, f))

\* C10: after the clustering pass no final group key has a strict ancestor
\* among the initial keys, in every iteration order of the key set.
C10_FinalKeysAreOutermost ==
    AfterClustering =>
       \A f \in DOMAIN final_grouped :
          ~\E a \in DOMAIN grouped : IsPathDescendant(f, a)

\* C7: truncate_string returns s unchanged when len(s) <= n, and for n >= 3
\* returns at most n long: the first n-3 characters of s and three dots when
\* len(s) > n.
C7_TruncationContract ==
    pc = "truncated" =>
       /\ ~Unwrap(tout).panic
       /\ ByteLen(ts) <= tn => Unwrap(tout).val = ts
       /\ (tn >= 3 /\ ByteLen(ts) > tn) =>
             /\ ByteLen(Unwrap(tout).val) <= tn
             /\ Unwrap(tout).val = SubSeq(ts, 1, tn - 3) \o <<".", ".", ".">>

=============================================================================
